---- MODULE Spec2Model ----
(***************************************************************************)
(* LiteDBManager (src/litedb_manager.py): a facade over one sqlite3        *)
(* connection.  The facade builds a statement from structured arguments,   *)
(* hands it to the engine through its cursor, commits, and turns engine    *)
(* errors into False / [].                                                 *)
(*                                                                         *)
(* The engine is modelled as far as the facade's statements exercise it:   *)
(* a catalog (sqlite_master) in creation order, rows in rowid order, the   *)
(* committed database (disk) against the connection's view of it (work),   *)
(* the implicit BEGIN the sqlite3 module issues before INSERT / UPDATE /   *)
(* DELETE, UNIQUE constraints, SQL's three-valued "=" on NULL, identifier  *)
(* case folding, and prepare-time errors (missing table or column, an      *)
(* empty column list, a WHERE with no predicate).  File locking between    *)
(* two handles on the same file is concurrent access control, which the    *)
(* facade leaves to the engine, and is not modelled.                       *)
(***************************************************************************)
EXTENDS Integers, Sequences, FiniteSets, TLC

VARIABLES connection, orphans, disk, work, inTxn, last

vars == <<connection, orphans, disk, work, inTxn, last>>

(* Bounds of the model. *)
MaxRows == 2
MaxOrphans == 1

(***************************************************************************)
(* Values, records and schemas                                             *)
(***************************************************************************)
NULL == "NULL"

Values == {NULL, "x"}

(* A mapping in iteration order: a sequence of <<key, value>> pairs. *)
Keys(d) == [i \in 1..Len(d) |-> d[i][1]]

Vals(d) == [i \in 1..Len(d) |-> d[i][2]]

SchemaAB == << <<"a", "TEXT UNIQUE">>, <<"b", "TEXT">> >>

SchemaB == << <<"b", "TEXT">> >>

SchemaAuto == << <<"id", "INTEGER PRIMARY KEY AUTOINCREMENT">>, <<"b", "TEXT">> >>

(* Records over the columns a and b, in the order a, b, and one that names *)
(* a column no table has.                                                  *)
Records ==
  {<<>>, << <<"z", "x">> >>}
    \cup {<< <<"a", v>> >> : v \in Values}
    \cup {<< <<"b", v>> >> : v \in Values}
    \cup {<< <<"a", v>>, <<"b", w>> >> : v \in Values, w \in Values}

(***************************************************************************)
(* The engine: statements, the catalog, rows                               *)
(***************************************************************************)
(* A statement as the engine sees it.  where is <<>> when the text has no  *)
(* WHERE keyword and <<keys>> when it has one, followed by one "key = ?"   *)
(* predicate per key; limit is <<>> when the text has no LIMIT clause.     *)
Stmt(verb, table) ==
  [verb |-> verb, table |-> table, cols |-> <<>>, set |-> <<>>,
   where |-> <<>>, limit |-> <<>>]

StoredNames == {"t", "u"}

EmptyDb == [master |-> <<>>, rows |-> [n \in StoredNames |-> <<>>]]

(* Identifiers compare without regard to ASCII letter case. *)
Fold(name) == IF name = "T" THEN "t" ELSE IF name = "U" THEN "u" ELSE name

(* The place of table name in the catalog, 0 when there is none. *)
Lookup(db, name) ==
  LET S == {i \in 1..Len(db.master) :
              db.master[i].type = "table" /\ Fold(db.master[i].name) = Fold(name)}
  IN  IF S = {} THEN 0 ELSE CHOOSE i \in S : TRUE

ColumnsOf(db, name) == db.master[Lookup(db, name)].cols

ColNames(cols) == {cols[i][1] : i \in 1..Len(cols)}

UniqueCols(cols) == {cols[i][1] : i \in {j \in 1..Len(cols) : cols[j][2] = "TEXT UNIQUE"}}

IsAuto(cols) ==
  \E i \in 1..Len(cols) : cols[i][2] = "INTEGER PRIMARY KEY AUTOINCREMENT"

InSeq(x, s) == \E i \in 1..Len(s) : s[i] = x

WhereOK(cols, where) ==
  \/ where = <<>>
  \/ /\ Len(where[1]) > 0
     /\ \A i \in 1..Len(where[1]) : where[1][i] \in ColNames(cols)

DML == {"INSERT", "UPDATE", "DELETE"}

(* Whether the engine compiles the statement. *)
PrepareOK(db, stmt) ==
  CASE stmt.verb = "CREATE TABLE IF NOT EXISTS" -> Len(stmt.cols) > 0
    [] stmt.verb = "CREATE TABLE" ->
         Len(stmt.cols) > 0 /\ Lookup(db, stmt.table) = 0
    [] stmt.verb = "INSERT" ->
         /\ Lookup(db, stmt.table) # 0
         /\ Len(stmt.cols) > 0
         /\ \A i \in 1..Len(stmt.cols) :
              stmt.cols[i] \in ColNames(ColumnsOf(db, stmt.table))
    [] stmt.verb = "SELECT" ->
         /\ Lookup(db, stmt.table) # 0
         /\ WhereOK(ColumnsOf(db, stmt.table), stmt.where)
    [] stmt.verb = "UPDATE" ->
         /\ Lookup(db, stmt.table) # 0
         /\ Len(stmt.set) > 0
         /\ \A i \in 1..Len(stmt.set) :
              stmt.set[i] \in ColNames(ColumnsOf(db, stmt.table))
         /\ WhereOK(ColumnsOf(db, stmt.table), stmt.where)
    [] stmt.verb = "DELETE" ->
         /\ Lookup(db, stmt.table) # 0
         /\ WhereOK(ColumnsOf(db, stmt.table), stmt.where)
    [] OTHER -> FALSE

(* The number of "?" placeholders of the statement. *)
NumParams(stmt) ==
  (IF stmt.verb = "INSERT" THEN Len(stmt.cols) ELSE 0)
    + Len(stmt.set)
    + (IF stmt.where = <<>> THEN 0 ELSE Len(stmt.where[1]))

(* SQL "=": never true when either side is NULL. *)
SqlEq(x, y) == x # NULL /\ y # NULL /\ x = y

Matches(row, where, vals) ==
  \/ where = <<>>
  \/ \A i \in 1..Len(where[1]) : SqlEq(row[where[1][i]], vals[i])

MakeRow(cols, keys, vals) ==
  [c \in ColNames(cols) |->
     IF InSeq(c, keys) THEN vals[CHOOSE i \in 1..Len(keys) : keys[i] = c] ELSE NULL]

(* A UNIQUE column holds no non-null value twice. *)
UniqueOK(cols, rows) ==
  \A c \in UniqueCols(cols) : \A i, j \in 1..Len(rows) :
    (i # j /\ rows[i][c] # NULL) => rows[i][c] # rows[j][c]

FirstN(s, n) == IF n < 0 THEN s ELSE SubSeq(s, 1, IF n < Len(s) THEN n ELSE Len(s))

WithRows(db, name, rows) == [db EXCEPT !.rows[Fold(name)] = rows]

(* CREATE TABLE: the table's catalog row, the automatic index of each      *)
(* UNIQUE column, and sqlite_sequence with the first AUTOINCREMENT table.  *)
Created(db, stmt) ==
  LET tbl == <<[type |-> "table", name |-> stmt.table, cols |-> stmt.cols]>>
      idx == IF UniqueCols(stmt.cols) # {}
               THEN <<[type |-> "index", name |-> "sqlite_autoindex", cols |-> <<>>]>>
               ELSE <<>>
      sq  == IF IsAuto(stmt.cols) /\ Lookup(db, "sqlite_sequence") = 0
               THEN <<[type |-> "table", name |-> "sqlite_sequence", cols |-> <<>>]>>
               ELSE <<>>
  IN  [db EXCEPT !.master = db.master \o tbl \o idx \o sq]

(* One compiled statement run with its parameters: err, the database as    *)
(* the connection then sees it, and the rows a query yields, each a tuple  *)
(* in column order.  A statement that fails changes nothing.               *)
Step(db, stmt, params) ==
  LET cols == ColumnsOf(db, stmt.table)
      rows == db.rows[Fold(stmt.table)]
      fail == [err |-> TRUE, db |-> db, rows |-> <<>>]
      done(d) == [err |-> FALSE, db |-> d, rows |-> <<>>]
  IN  IF Len(params) # NumParams(stmt) THEN fail
      ELSE CASE stmt.verb \in {"CREATE TABLE IF NOT EXISTS", "CREATE TABLE"} ->
                  IF Lookup(db, stmt.table) # 0 THEN done(db)
                  ELSE done(Created(db, stmt))
             [] stmt.verb = "INSERT" ->
                  LET new == Append(rows, MakeRow(cols, stmt.cols, params))
                  IN  IF UniqueOK(cols, new) THEN done(WithRows(db, stmt.table, new))
                      ELSE fail
             [] stmt.verb = "SELECT" ->
                  LET hit == SelectSeq(rows, LAMBDA r : Matches(r, stmt.where, params))
                      cut == IF stmt.limit = <<>> THEN hit
                             ELSE FirstN(hit, stmt.limit[1])
                  IN  [err |-> FALSE, db |-> db,
                       rows |-> [i \in 1..Len(cut) |->
                                   [k \in 1..Len(cols) |-> cut[i][cols[k][1]]]]]
             [] stmt.verb = "UPDATE" ->
                  LET n   == Len(stmt.set)
                      sv  == SubSeq(params, 1, n)
                      wv  == SubSeq(params, n + 1, Len(params))
                      new == [i \in 1..Len(rows) |->
                                IF Matches(rows[i], stmt.where, wv)
                                  THEN [c \in ColNames(cols) |->
                                          IF InSeq(c, stmt.set)
                                            THEN sv[CHOOSE k \in 1..n : stmt.set[k] = c]
                                            ELSE rows[i][c]]
                                  ELSE rows[i]]
                  IN  IF UniqueOK(cols, new) THEN done(WithRows(db, stmt.table, new))
                      ELSE fail
             [] stmt.verb = "DELETE" ->
                  done(WithRows(db, stmt.table,
                         SelectSeq(rows, LAMBDA r : ~Matches(r, stmt.where, params))))

(* cursor.execute: compile, open a transaction before a DML statement when *)
(* none is open, bind and run; description names a query's columns.        *)
EngineExecute(db, txn, stmt, params) ==
  IF ~PrepareOK(db, stmt)
    THEN [err |-> TRUE, db |-> db, txn |-> txn, rows |-> <<>>, description |-> <<>>]
    ELSE LET r == Step(db, stmt, params)
             cols == ColumnsOf(db, stmt.table)
         IN  [err |-> r.err, db |-> r.db, txn |-> (txn \/ stmt.verb \in DML),
              rows |-> r.rows,
              description |-> IF stmt.verb = "SELECT"
                                THEN [k \in 1..Len(cols) |-> cols[k][1]]
                                ELSE <<>>]

(* The statement run once per parameter list, stopping at the first that   *)
(* fails; the rows of the lists before it stay in the open transaction.    *)
RECURSIVE RunMany(_, _, _)
RunMany(db, stmt, lists) ==
  IF lists = <<>> THEN [err |-> FALSE, db |-> db]
  ELSE LET r == Step(db, stmt, Head(lists))
       IN  IF r.err THEN [err |-> TRUE, db |-> db]
           ELSE RunMany(r.db, stmt, Tail(lists))

(* cursor.executemany *)
EngineExecuteMany(db, txn, stmt, lists) ==
  IF ~PrepareOK(db, stmt)
    THEN [err |-> TRUE, db |-> db, txn |-> txn, rows |-> <<>>]
    ELSE LET r == RunMany(db, stmt, lists)
         IN  [err |-> r.err, db |-> r.db, txn |-> TRUE, rows |-> <<>>]

(***************************************************************************)
(* Statement text handed to execute_sql                                    *)
(***************************************************************************)
SqlSelect == <<"S","E","L","E","C","T"," ","*"," ","F","R","O","M"," ","t">>

SqlSelectLower ==
  <<" ","s","e","l","e","c","t"," ","*"," ","f","r","o","m"," ","t","\n">>

SqlCommentSelect ==
  <<"/","*","*","/","S","E","L","E","C","T"," ","*"," ","F","R","O","M"," ","t">>

SqlInsert ==
  <<"I","N","S","E","R","T"," ","I","N","T","O"," ","t"," ","(","a",")",
    " ","V","A","L","U","E","S"," ","(","?",")">>

SqlDelete == <<"D","E","L","E","T","E"," ","F","R","O","M"," ","t">>

SqlTypo == <<"S","E","L","E","C"," ","*"," ","F","R","O","M"," ","t">>

(* What the engine's parser makes of the text: it skips white space and    *)
(* comments and reads keywords in either case.                             *)
EngineParse(sql) ==
  CASE sql \in {SqlSelect, SqlSelectLower, SqlCommentSelect} -> Stmt("SELECT", "t")
    [] sql = SqlInsert -> [Stmt("INSERT", "t") EXCEPT !.cols = <<"a">>]
    [] sql = SqlDelete -> Stmt("DELETE", "t")
    [] OTHER -> Stmt("SYNTAX ERROR", "")

WhiteSpace == {" ", "\n", "\t"}

(* str.strip *)
RECURSIVE LStrip(_)
LStrip(s) == IF s # <<>> /\ Head(s) \in WhiteSpace THEN LStrip(Tail(s)) ELSE s

RECURSIVE RStrip(_)
RStrip(s) ==
  IF s # <<>> /\ s[Len(s)] \in WhiteSpace THEN RStrip(SubSeq(s, 1, Len(s) - 1)) ELSE s

Strip(s) == RStrip(LStrip(s))

(* str.upper, on the letters the statements use *)
UpperChar(c) ==
  CASE c = "s" -> "S" [] c = "e" -> "E" [] c = "l" -> "L" [] c = "c" -> "C"
    [] c = "t" -> "T" [] c = "f" -> "F" [] c = "r" -> "R" [] c = "o" -> "O"
    [] c = "m" -> "M" [] c = "a" -> "A" [] OTHER -> c

Upper(s) == [i \in 1..Len(s) |-> UpperChar(s[i])]

(* str.startswith *)
StartsWith(s, prefix) ==
  Len(s) >= Len(prefix) /\ SubSeq(s, 1, Len(prefix)) = prefix

(***************************************************************************)
(* The facade: statements built from the arguments                         *)
(***************************************************************************)
(* Variant: the statement without IF NOT EXISTS. *)
CreateTableSqlPlain(table_name, columns) ==
  [Stmt("CREATE TABLE", table_name) EXCEPT !.cols = columns]

CreateTableSql(table_name, columns) ==
  [Stmt("CREATE TABLE IF NOT EXISTS", table_name) EXCEPT !.cols = columns]

InsertSql(table_name, data) ==
  [Stmt("INSERT", table_name) EXCEPT !.cols = Keys(data)]

(* Variant: the keys bound in place of the values. *)
InsertValuesAsKeys(data) == Keys(data)

InsertValues(data) == Vals(data)

(* Columns and placeholders come from the first record. *)
BulkInsertSql(table_name, data_list) ==
  [Stmt("INSERT", table_name) EXCEPT !.cols = Keys(data_list[1])]

BulkValues(data_list) == [i \in 1..Len(data_list) |-> Vals(data_list[i])]

(* Python truth of "limit": None and 0 are false. *)
Truthy(limit) == limit # <<>> /\ limit[1] # 0

SelectSql(table_name, conditions, limit) ==
  [Stmt("SELECT", table_name) EXCEPT
     !.where = IF conditions # <<>> THEN <<Keys(conditions)>> ELSE <<>>,
     !.limit = IF Truthy(limit) THEN limit ELSE <<>>]

SelectParams(conditions) == Vals(conditions)

UpdateSql(table_name, data, conditions) ==
  [Stmt("UPDATE", table_name) EXCEPT
     !.set = Keys(data), !.where = <<Keys(conditions)>>]

UpdateParams(data, conditions) == Vals(data) \o Vals(conditions)

(* Variant: WHERE left out when there is no condition, as select does. *)
DeleteSqlOptionalWhere(table_name, conditions) ==
  [Stmt("DELETE", table_name) EXCEPT
     !.where = IF conditions # <<>> THEN <<Keys(conditions)>> ELSE <<>>]

DeleteSql(table_name, conditions) ==
  [Stmt("DELETE", table_name) EXCEPT !.where = <<Keys(conditions)>>]

(* Variant: the keys bound in place of the values. *)
DeleteParamsAsKeys(conditions) == Keys(conditions)

DeleteParams(conditions) == Vals(conditions)

(* Variant: the text not stripped before it is looked at. *)
IsSelectTextUnstripped(sql) == StartsWith(Upper(sql), <<"S","E","L","E","C","T">>)

IsSelectText(sql) == StartsWith(Upper(Strip(sql)), <<"S","E","L","E","C","T">>)

(* dict(zip(column_names, row)) for each row *)
ToDicts(column_names, rows) ==
  [i \in 1..Len(rows) |->
     [c \in {column_names[k] : k \in 1..Len(column_names)} |->
        rows[i][CHOOSE k \in 1..Len(column_names) : column_names[k] = c]]]

(* The catalog query of get_all_tables and the filter on its rows. *)
TableNames(db) ==
  LET t == SelectSeq(db.master, LAMBDA e : e.type = "table")
  IN  [i \in 1..Len(t) |-> t[i].name]

AllTables(db) == SelectSeq(TableNames(db), LAMBDA n : n # "sqlite_sequence")

(***************************************************************************)
(* The facade: calls                                                       *)
(***************************************************************************)
(* The last call: its arguments and what it gave back.  ok is a mutating   *)
(* call's return value, out a query's; raised says an exception reached    *)
(* the caller; commits counts the calls of connection.commit().            *)
NoCall ==
  [op |-> "", table |-> "", data |-> <<>>, cond |-> <<>>, limit |-> <<>>,
   sql |-> <<>>, ok |-> FALSE, raised |-> FALSE, out |-> <<>>, commits |-> 0]

Called(op, table, data, cond) ==
  [NoCall EXCEPT !.op = op, !.table = table, !.data = data, !.cond = cond]

RowCount(db) == Len(db.rows["t"])

(* try: cursor.execute(sql, params); connection.commit(); return True      *)
(* except sqlite3.Error: return False.  With no connection, cursor is None *)
(* and the attribute error is not an sqlite3.Error.                        *)
ExecuteCommit(call, r) ==
  CASE connection = "None" ->
         /\ last' = [call EXCEPT !.raised = TRUE]
         /\ UNCHANGED <<connection, orphans, disk, work, inTxn>>
    [] connection = "closed" ->
         /\ last' = call
         /\ UNCHANGED <<connection, orphans, disk, work, inTxn>>
    [] connection = "open" ->
         IF r.err
           THEN /\ work' = r.db
                /\ inTxn' = r.txn
                /\ last' = call
                /\ UNCHANGED <<connection, orphans, disk>>
           ELSE /\ work' = r.db
                /\ disk' = r.db
                /\ inTxn' = FALSE
                /\ last' = [call EXCEPT !.ok = TRUE, !.commits = 1]
                /\ UNCHANGED <<connection, orphans>>

(* sqlite3.connect either opens a handle or fails with an sqlite3.Error,   *)
(* which is caught.  The handle it replaces is not closed.                 *)
Connect ==
  \/ /\ last' = Called("connect", "", <<>>, <<>>)
     /\ UNCHANGED <<connection, orphans, disk, work, inTxn>>
  \/ /\ connection' = "open"
     /\ orphans' = IF connection = "open" THEN orphans + 1 ELSE orphans
     /\ orphans' <= MaxOrphans
     /\ work' = disk
     /\ inTxn' = FALSE
     /\ last' = [Called("connect", "", <<>>, <<>>) EXCEPT !.ok = TRUE]
     /\ UNCHANGED disk

(* A handle nothing refers to any more is closed when the collector finds  *)
(* it, which rolls back what it had not committed.                         *)
Finalize ==
  /\ orphans > 0
  /\ orphans' = orphans - 1
  /\ UNCHANGED <<connection, disk, work, inTxn, last>>

Disconnect ==
  /\ IF connection # "None"
       THEN connection' = "closed" /\ work' = disk /\ inTxn' = FALSE
       ELSE UNCHANGED <<connection, work, inTxn>>
  /\ last' = Called("disconnect", "", <<>>, <<>>)
  /\ UNCHANGED <<orphans, disk>>

CreateTable(table_name, columns) ==
  ExecuteCommit(Called("create_table", table_name, columns, <<>>),
                EngineExecute(work, inTxn, CreateTableSql(table_name, columns), <<>>))

Insert(table_name, data) ==
  /\ ExecuteCommit(Called("insert", table_name, data, <<>>),
                   EngineExecute(work, inTxn, InsertSql(table_name, data),
                                 InsertValues(data)))
  /\ RowCount(work') <= MaxRows

BulkInsert(table_name, data_list) ==
  IF data_list = <<>>
    THEN /\ last' = [Called("bulk_insert", table_name, data_list, <<>>) EXCEPT !.ok = TRUE]
         /\ UNCHANGED <<connection, orphans, disk, work, inTxn>>
    ELSE /\ ExecuteCommit(Called("bulk_insert", table_name, data_list, <<>>),
                          EngineExecuteMany(work, inTxn,
                                            BulkInsertSql(table_name, data_list),
                                            BulkValues(data_list)))
         /\ RowCount(work') <= MaxRows

(* What select returns on a connection that exists. *)
SelectResult(conn, db, txn, table_name, conditions, limit) ==
  IF conn = "closed" THEN <<>>
  ELSE LET r == EngineExecute(db, txn, SelectSql(table_name, conditions, limit),
                              SelectParams(conditions))
       IN  IF r.err THEN <<>> ELSE ToDicts(r.description, r.rows)

Select(table_name, conditions, limit) ==
  /\ last' = IF connection = "None"
               THEN [Called("select", table_name, <<>>, conditions) EXCEPT
                       !.limit = limit, !.raised = TRUE]
               ELSE [Called("select", table_name, <<>>, conditions) EXCEPT
                       !.limit = limit,
                       !.out = SelectResult(connection, work, inTxn, table_name,
                                            conditions, limit)]
  /\ UNCHANGED <<connection, orphans, disk, work, inTxn>>

Update(table_name, data, conditions) ==
  ExecuteCommit(Called("update", table_name, data, conditions),
                EngineExecute(work, inTxn, UpdateSql(table_name, data, conditions),
                              UpdateParams(data, conditions)))

Delete(table_name, conditions) ==
  ExecuteCommit(Called("delete", table_name, <<>>, conditions),
                EngineExecute(work, inTxn, DeleteSql(table_name, conditions),
                              DeleteParams(conditions)))

(* What get_all_tables returns on a connection that exists. *)
GetAllTablesResult(conn, db) == IF conn = "closed" THEN <<>> ELSE AllTables(db)

GetAllTables ==
  /\ last' = IF connection = "None"
               THEN [Called("get_all_tables", "", <<>>, <<>>) EXCEPT !.raised = TRUE]
               ELSE [Called("get_all_tables", "", <<>>, <<>>) EXCEPT
                       !.out = GetAllTablesResult(connection, work)]
  /\ UNCHANGED <<connection, orphans, disk, work, inTxn>>

ExecuteSql(sql, params) ==
  LET call == [Called("execute_sql", "", params, <<>>) EXCEPT !.sql = sql]
      r    == EngineExecute(work, inTxn, EngineParse(sql), params)
  IN  CASE connection = "None" ->
             /\ last' = [call EXCEPT !.raised = TRUE]
             /\ UNCHANGED <<connection, orphans, disk, work, inTxn>>
        [] connection = "closed" ->
             /\ last' = call
             /\ UNCHANGED <<connection, orphans, disk, work, inTxn>>
        [] connection = "open" ->
             /\ RowCount(r.db) <= MaxRows
             /\ IF r.err
                  THEN /\ work' = r.db
                       /\ inTxn' = r.txn
                       /\ last' = call
                       /\ UNCHANGED <<connection, orphans, disk>>
                  ELSE IF IsSelectText(sql)
                    THEN /\ work' = r.db
                         /\ inTxn' = r.txn
                         /\ last' = [call EXCEPT !.out = ToDicts(r.description, r.rows)]
                         /\ UNCHANGED <<connection, orphans, disk>>
                    ELSE /\ work' = r.db
                         /\ disk' = r.db
                         /\ inTxn' = FALSE
                         /\ last' = [call EXCEPT !.commits = 1]
                         /\ UNCHANGED <<connection, orphans>>

(***************************************************************************)
(* The state machine                                                       *)
(***************************************************************************)
(* After LiteDBManager(db_path) on a fresh database file: connect() has    *)
(* run and either opened the connection or failed and left it None.        *)
Init ==
  /\ connection \in {"open", "None"}
  /\ orphans = 0
  /\ disk = EmptyDb
  /\ work = EmptyDb
  /\ inTxn = FALSE
  /\ last = [Called("__init__", "", <<>>, <<>>) EXCEPT !.ok = (connection = "open")]

(* The calls of the facade with arguments drawn from the sets of in. *)
Calls(in) ==
  \/ \E c \in in.create : CreateTable(c[1], c[2])
  \/ \E d \in in.insert : Insert("t", d)
  \/ \E l \in in.bulk : BulkInsert("t", l)
  \/ \E q \in in.select : Select("t", q[1], q[2])
  \/ \E u \in in.update : Update("t", u[1], u[2])
  \/ \E c \in in.delete : Delete("t", c)
  \/ GetAllTables
  \/ \E e \in in.sql : ExecuteSql(e[1], e[2])

SqlInputs ==
  { <<SqlSelect, <<>>>>, <<SqlSelectLower, <<>>>>, <<SqlCommentSelect, <<>>>>,
    <<SqlDelete, <<>>>>, <<SqlTypo, <<>>>> }
    \cup { <<SqlInsert, <<v>>>> : v \in Values }

BulkRecords ==
  { << <<"b", "x">> >>,
    << <<"a", "x">>, <<"b", NULL>> >>,
    << <<"b", "x">>, <<"a", NULL>> >> }

(* Calls on one table, with every record, by a caller that calls connect() *)
(* only when no connection is open.                                        *)
DataInputs ==
  [create |-> {<<"t", SchemaAB>>},
   insert |-> Records,
   bulk   |-> UNION {[1..n -> BulkRecords] : n \in 0..MaxRows},
   select |-> {<<c, <<>>>> : c \in Records}
                \cup {<<<<>>, <<k>>>> : k \in -1..1}
                \cup {<< << <<"b", "x">> >>, <<1>> >>},
   update |-> {d \in Records : Len(d) <= 1}
                \X {<<>>, << <<"a", "x">> >>, << <<"b", "x">> >>, << <<"b", NULL>> >>},
   delete |-> Records,
   sql    |-> SqlInputs]

Next ==
  \/ connection # "open" /\ Connect
  \/ Disconnect
  \/ Calls(DataInputs)

Spec == Init /\ [][Next]_vars

(* Any sequence of connect() and disconnect(), tables of several names and *)
(* column sets, and a few calls of each other operation.                   *)
HandleInputs ==
  [create |-> { <<"t", SchemaAB>>, <<"t", SchemaB>>, <<"T", SchemaB>>,
                <<"u", SchemaAuto>>, <<"u", <<>>>> },
   insert |-> {<< <<"b", "x">> >>},
   bulk   |-> {<<>>, << << <<"b", "x">> >>, <<>> >>},
   select |-> {<< <<>>, <<>> >>},
   update |-> {<< << <<"b", NULL>> >>, << <<"b", "x">> >> >>},
   delete |-> {<< <<"b", "x">> >>},
   sql    |-> {<<SqlSelect, <<>>>>, <<SqlDelete, <<>>>>}]

NextHandles ==
  \/ Connect
  \/ Finalize
  \/ Disconnect
  \/ Calls(HandleInputs)

SpecHandles == Init /\ [][NextHandles]_vars

(***************************************************************************)
(* Properties                                                              *)
(***************************************************************************)
LiveHandles == (IF connection = "open" THEN 1 ELSE 0) + orphans

Mutating == {"create_table", "insert", "bulk_insert", "update", "delete"}

Count(x, s) == Cardinality({i \in 1..Len(s) : s[i] = x})

NoNull(d) == \A i \in 1..Len(d) : d[i][2] # NULL

FoldCount(name, s) == Cardinality({i \in 1..Len(s) : Fold(s[i]) = Fold(name)})

KeySet(d) == {d[i][1] : i \in 1..Len(d)}

AgreesWith(row, d) ==
  \A i \in 1..Len(d) : d[i][1] \in DOMAIN row /\ row[d[i][1]] = d[i][2]

(* C1 as stated: after create_table(table_name, columns) has returned True *)
(* get_all_tables() holds table_name exactly once.                         *)
C1_ListsNameOnce ==
  (last.op = "create_table" /\ last.ok)
    => Count(last.table, GetAllTablesResult(connection, work)) = 1

(* C1, amended: after create_table(table_name, columns) has returned True, *)
(* get_all_tables() holds exactly one name equal to table_name up to the   *)
(* case of its letters; on an open connection a call with columns for a    *)
(* table that exists returns True and leaves the list as it was.           *)
C1_ListsNameOnceFolded ==
  [][ (last'.op = "create_table" /\ orphans' = orphans) =>
        LET before == GetAllTablesResult(connection, work)
            after  == GetAllTablesResult(connection', work')
            exists == Lookup(work, last'.table) # 0
        IN  /\ last'.ok => FoldCount(last'.table, after) = 1
            /\ (last'.ok /\ exists) => after = before
            /\ (connection = "open" /\ exists /\ last'.data # <<>>) => last'.ok
    ]_vars

(* A table made under one spelling was named again under another. *)
C1_Witness ==
  /\ last.op = "create_table" /\ last.ok /\ last.table = "T"
  /\ GetAllTablesResult(connection, work) = <<"t">>

C3_DeletedNotSelected ==
  (last.op = "delete" /\ connection # "None")
    => SelectResult(connection, work, inTxn, last.table, last.cond, <<>>) = <<>>

(* C3, amended: the same for every cond that is not empty, whether delete  *)
(* returned True or False.                                                 *)
C3_DeletedNotSelectedNonEmpty ==
  (last.op = "delete" /\ last.cond # <<>> /\ connection # "None")
    => SelectResult(connection, work, inTxn, last.table, last.cond, <<>>) = <<>>

(* delete returned True and left a row that does not match. *)
C3_Witness ==
  /\ last.op = "delete" /\ last.ok /\ last.cond = << <<"b", "x">> >>
  /\ RowCount(work) = 1 /\ RowCount(disk) = 1

(* C4: select with limit = k, k >= 0, returns at most k rows. *)
C4_AtMostLimit ==
  (last.op = "select" /\ ~last.raised /\ last.limit # <<>> /\ last.limit[1] >= 0)
    => Len(last.out) <= last.limit[1]

(* C5: no public operation raises into the caller, whatever the state of   *)
(* the connection.                                                         *)
C5_NeverRaises == ~last.raised

(* C8: when a mutating operation has returned, the connection holds no     *)
(* open transaction and no change that is not committed.                   *)
C8_CommittedOnReturn ==
  (last.op \in Mutating /\ ~last.raised) => (~inTxn /\ work = disk)

(* C9: at most one connection handle opened by the instance is live. *)
C9_OneLiveHandle == LiveHandles <= 1

(* C6 as stated: update(table, record, {}) and delete(table, {}) on a      *)
(* table that exists report success and reach every row.                   *)
C6_EmptyConditionsReachAllRows ==
  ( /\ last.op \in {"update", "delete"} /\ last.cond = <<>>
    /\ connection = "open" /\ Lookup(work, last.table) # 0
    /\ last.op = "update" => (last.data # <<>> /\ KeySet(last.data) \subseteq {"a", "b"}) )
    => /\ last.ok
       /\ last.op = "delete" => RowCount(work) = 0
       /\ last.op = "update" =>
            \A i \in 1..RowCount(work) : AgreesWith(work.rows["t"][i], last.data)

(* C6, amended: with an empty conditions mapping the statement's WHERE has *)
(* no predicate and the engine rejects it: the call does not succeed (it   *)
(* returns False where the facade has a connection) and the rows, those    *)
(* committed and those the connection sees, stay as they were.             *)
C6_EmptyConditionsFail ==
  [][ (last'.op \in {"update", "delete"} /\ last'.cond = <<>>) =>
        /\ ~last'.ok
        /\ connection # "None" => ~last'.raised
        /\ work' = work /\ disk' = disk
    ]_vars

(* delete(table, {}) on a table that holds rows. *)
C6_Witness ==
  /\ last.op = "delete" /\ last.cond = <<>> /\ ~last.ok /\ ~last.raised
  /\ connection = "open" /\ RowCount(work) > 0

(* The rows the records of a list stand for, each bound by its own keys. *)
IntendedRows(cols, data_list) ==
  [i \in 1..Len(data_list) |-> MakeRow(cols, Keys(data_list[i]), Vals(data_list[i]))]

(* Records with the keys of the first, all of them columns of the table,   *)
(* that no UNIQUE column refuses.                                          *)
WellFormed(db, data_list) ==
  /\ Lookup(db, "t") # 0
  /\ data_list[1] # <<>>
  /\ \A i \in 1..Len(data_list) : KeySet(data_list[i]) = KeySet(data_list[1])
  /\ KeySet(data_list[1]) \subseteq ColNames(ColumnsOf(db, "t"))
  /\ UniqueOK(ColumnsOf(db, "t"),
              db.rows["t"] \o IntendedRows(ColumnsOf(db, "t"), data_list))

(* C7: bulk_insert of N >= 1 well-formed records with the same keys        *)
(* returns True and adds N rows; of an empty list it returns True and      *)
(* touches nothing.                                                        *)
C7_BulkAddsN ==
  [][ last'.op = "bulk_insert" =>
        /\ last'.data = <<>> =>
             (last'.ok /\ UNCHANGED <<connection, disk, work, inTxn>>)
        /\ (last'.data # <<>> /\ connection = "open" /\ WellFormed(work, last'.data)) =>
             (last'.ok /\ RowCount(work') = RowCount(work) + Len(last'.data))
    ]_vars

(* C10: execute_sql looks only at the text.  Text that, stripped and in    *)
(* upper case, starts with SELECT: the rows are returned as mappings by    *)
(* column name and nothing is committed.  Any other statement that runs:   *)
(* a commit and an empty sequence.  An engine error: an empty sequence and *)
(* no commit.                                                              *)
C10_DispatchOnText ==
  [][ (last'.op = "execute_sql" /\ connection # "None") =>
        LET r == EngineExecute(work, inTxn, EngineParse(last'.sql), last'.data)
        IN  IF connection = "closed" \/ r.err
              THEN last'.out = <<>> /\ last'.commits = 0 /\ disk' = disk
              ELSE IF last'.sql \in {SqlSelect, SqlSelectLower}
                THEN /\ last'.out = work.rows["t"]
                     /\ last'.commits = 0 /\ disk' = disk
                ELSE /\ last'.out = <<>> /\ last'.commits = 1
                     /\ disk' = work' /\ ~inTxn'
    ]_vars

(* A lower-case select with white space around it returned rows. *)
C10_Witness ==
  /\ last.op = "execute_sql" /\ last.sql = SqlSelectLower
  /\ Len(last.out) > 0 /\ last.commits = 0

====
